---- MODULE Spec2Model ----
(***************************************************************************)
(* State-machine model of pyco.concurrent.ConcurrentExecutor               *)
(* (src/pyco/concurrent.py): a pool of coroutines run either one at a time *)
(* (limit == 1) or all at once behind an asyncio.Semaphore (limit != 1).   *)
(*                                                                         *)
(* The executor lives on one asyncio event loop.  Every action below is    *)
(* the code that runs between two suspension points of that loop: a call   *)
(* of the facade (add, cancel, reset, on, off, run) by some coroutine of   *)
(* the host program, or one step of a pooled coroutine.  The suspension    *)
(* points are the observer's trigger (while it awaits a subscriber), the   *)
(* pooled coroutine's own body, the semaphore's acquire and asyncio.wait.  *)
(***************************************************************************)
EXTENDS Integers, Sequences, FiniteSets

\* ---------------------------------------------------------------- bounds
\* Coroutines submitted in one behaviour.
MaxTasks == 3
\* Invocations of run() that pass its guards in one behaviour.
MaxRuns == 2
\* Largest configured concurrency limit.
MaxLimit == 2

\* limit argument of the constructor: negative, zero, one, several.
Limits == (0 - 1)..MaxLimit
TaskIds == 1..MaxTasks
RunIds == 1..MaxRuns
\* asyncio.Semaphore objects alive at once: the executor's own one and one
\* for every pooled coroutine that may still hold or await an older one.
SemIds == 0..MaxTasks
NoSem == 0 - 1

\* return_exceptions argument of run(): None, True or False.
RexArgs == {"None", "True", "False"}
\* (timeout, return_when) arguments of run().
WaitArgs == { <<"None", "ALL_COMPLETED">>, <<"T", "ALL_COMPLETED">> }
\* Event names the host subscribes a coroutine to (a subscriber of
\* task.finish is a plain function: its trigger does not suspend).
EventNames == {"task.start"}

StillRunning == "executor is still running"
AlreadyRunning == "executor is already running"
EmptySchedule == "no coroutines to schedule"
\* The exception of a pooled coroutine, leaving run().
TaskError == "task error"

VARIABLES
  limit,              \* self.limit
  running,            \* self.running
  return_exceptions,  \* self.return_exceptions
  pool,               \* self.pool: deque of task ids, left end first
  subs,               \* self.observer: event names with a subscriber
  throttler,          \* self.throttler: the current Semaphore object
  sem,                \* value (free slots) of every Semaphore object
  tasks,              \* every Task added: its position and its frame
  ntasks,             \* number of add() calls so far
  runs,               \* every run() past its guards: position and frame
  nruns,              \* number of such run() invocations so far
  notified,           \* per task: the task.start / task.finish triggers made
  reply,              \* what the latest step handed to a caller of the
                      \* facade: the exception raised or run()'s return value
  cancelled,          \* history: live tasks that were dequeued and not yet
                      \* started when cancel() was called in a run
  interfered          \* history: cancel() was called while a run() was active

vars == <<limit, running, return_exceptions, pool, subs, throttler, sem,
          tasks, ntasks, runs, nruns, notified, reply, cancelled, interfered>>

\* ---------------------------------------------------------------- helpers
Range(q) == { q[i] : i \in 1..Len(q) }

Max(a, b) == IF a >= b THEN a ELSE b

NoTask == [pc |-> "none", index |-> 0, late |-> FALSE, run |-> 0,
           sem |-> NoSem, rex |-> FALSE, out |-> "none"]

NoRun == [pc |-> "none", timeout |-> "None",
          return_when |-> "ALL_COMPLETED", done |-> {}, err |-> 0,
          abandoned |-> {}]

\* Nothing handed to a caller.
Quiet == [ret |-> FALSE, error |-> "", done |-> {}, pending |-> {}]
Raise(e) == [Quiet EXCEPT !.error = e]
Return(d, p) == [Quiet EXCEPT !.ret = TRUE, !.done = d, !.pending = p]

\* Positions of a pooled coroutine at which its future is resolved.
Resolved == {"done", "skipped", "raised"}
\* Positions between the task.start trigger and the end of _run_coro.
InFlight == {"starting", "working"}

\* The tasks run r has dequeued and still refers to.
Coros(tk, r) == { t \in TaskIds : tk[t].run = r }

\* A Semaphore object some pooled coroutine still holds or awaits.
Referenced(tk, s) == \E t \in TaskIds : tk[t].sem = s

\* asyncio.Semaphore(self.limit): a new object; the identity of an object
\* nobody references any more is reused.
NewSemaphore(tk) ==
  CHOOSE s \in SemIds : /\ ~Referenced(tk, s)
                        /\ \A s2 \in SemIds : s2 < s => Referenced(tk, s2)

\* What is left of a task nothing refers to any more: how it ended.
Settled(rec) == [NoTask EXCEPT !.pc = rec.pc, !.out = rec.out]

\* The tasks of c that are still alive.
Live(c, tk) == { t \in c : tk[t].pc \notin Resolved }

\* deque.clear(): the tasks of q are gone without having been dequeued.
Cleared(tk, q) ==
  [t \in TaskIds |-> IF t \in Range(q) THEN [NoTask EXCEPT !.pc = "dropped"]
                     ELSE tk[t]]

\* The frame of run r is gone: so are its references to resolved tasks.
Forgotten(tk, r) ==
  [t \in TaskIds |-> IF tk[t].run = r /\ tk[t].pc \in Resolved
                     THEN Settled(tk[t]) ELSE tk[t]]

\* ---------------------------------------------------------------- __init__
Init ==
  /\ limit \in { Max(l, 0) : l \in Limits }
  /\ running = FALSE
  /\ return_exceptions = FALSE
  /\ pool = <<>>
  /\ subs = {}
  /\ throttler = 0
  /\ sem = [s \in SemIds |-> limit]
  /\ tasks = [t \in TaskIds |-> NoTask]
  /\ ntasks = 0
  /\ runs = [r \in RunIds |-> NoRun]
  /\ nruns = 0
  /\ notified = [t \in TaskIds |-> [start |-> FALSE, finish |-> "none"]]
  /\ reply = Quiet
  /\ cancelled = {}
  /\ interfered = FALSE

\* ---------------------------------------------------------------- add
\* add(coro): index is the current length of the pool; the task is appended.
add ==
  /\ ntasks < MaxTasks
  /\ LET t == ntasks + 1 IN
     /\ ntasks' = t
     /\ tasks' = [tasks EXCEPT ![t] = [NoTask EXCEPT !.pc = "queued",
                                         !.index = Max(Len(pool), 0),
                                         !.late = running]]
     /\ pool' = Append(pool, t)
  /\ reply' = Quiet
  /\ UNCHANGED <<limit, running, return_exceptions, subs, throttler, sem,
                 runs, nruns, notified, cancelled, interfered>>

\* ---------------------------------------------------------------- on / off
on(e) ==
  /\ e \notin subs
  /\ subs' = subs \cup {e}
  /\ reply' = Quiet
  /\ UNCHANGED <<limit, running, return_exceptions, pool, throttler, sem,
                 tasks, ntasks, runs, nruns, notified, cancelled, interfered>>

off(e) ==
  /\ e \in subs
  /\ subs' = subs \ {e}
  /\ reply' = Quiet
  /\ UNCHANGED <<limit, running, return_exceptions, pool, throttler, sem,
                 tasks, ntasks, runs, nruns, notified, cancelled, interfered>>

\* Observer.clear(): every subscription is removed.
observer_clear == {}

\* ---------------------------------------------------------------- reset
\* The assignments of reset() without pool.clear().
reset_state_keep_pool(tk, q) ==
  /\ pool' = q
  /\ tasks' = tk
  /\ subs' = observer_clear
  /\ throttler' = NewSemaphore(tk)
  /\ sem' = [sem EXCEPT ![NewSemaphore(tk)] = limit]

\* The three assignments of reset() past its guard, applied to the task
\* table tk and the pool contents q.
reset_state(tk, q) ==
  /\ pool' = <<>>
  /\ tasks' = Cleared(tk, q)
  /\ subs' = observer_clear
  /\ throttler' = NewSemaphore(Cleared(tk, q))
  /\ sem' = [sem EXCEPT ![NewSemaphore(Cleared(tk, q))] = limit]

\* reset() as it would be without its guard.
reset_unguarded ==
  /\ reply' = Quiet
  /\ reset_state(tasks, pool)
  /\ UNCHANGED <<limit, running, return_exceptions, ntasks, runs, nruns,
                 notified, cancelled, interfered>>

reset ==
  /\ IF running
     THEN /\ reply' = Raise(StillRunning)
          /\ UNCHANGED <<pool, tasks, subs, throttler, sem>>
     ELSE /\ reply' = Quiet
          /\ reset_state(tasks, pool)
  /\ UNCHANGED <<limit, running, return_exceptions, ntasks, runs, nruns,
                 notified, cancelled, interfered>>

\* ---------------------------------------------------------------- cancel
cancel ==
  /\ pool' = <<>>
  /\ tasks' = Cleared(tasks, pool)
  /\ running' = FALSE
  /\ cancelled' = IF running
                  THEN cancelled \cup { t \in TaskIds :
                         tasks[t].pc \in {"scheduled", "waiting"} }
                  ELSE cancelled
  /\ interfered' = (interfered \/ \E r \in RunIds : runs[r].pc = "active")
  /\ reply' = Quiet
  /\ UNCHANGED <<limit, return_exceptions, subs, throttler, sem, ntasks,
                 runs, nruns, notified>>

\* ---------------------------------------------------------------- safe_run
\* safe_run(coro, return_exceptions): what comes out of one unit of work
\* that succeeds (ok) or raises: its value, the error as a value, or the
\* error raised again.
\* safe_run as it would be with the final raise left out: a failure that
\* is not to be returned comes out as None.
safe_run_no_reraise(ok, rex) ==
  IF ok THEN "value"
  ELSE IF rex THEN "error" ELSE "None"

\* safe_run as it would be were return_exceptions not looked at.
safe_run_always_raise(ok, rex) ==
  IF ok THEN "value" ELSE "raise"

safe_run(ok, rex) ==
  IF ok THEN "value"
  ELSE IF rex THEN "error" ELSE "raise"

\* observer.trigger('task.start', task)
TriggerStart(nf, t) == [nf EXCEPT ![t].start = TRUE]
\* observer.trigger('task.finish', task, result)
TriggerFinish(nf, t, result) == [nf EXCEPT ![t].finish = result]
\* yield from observer.trigger(e, ...) suspends the caller only while a
\* subscriber of e is being awaited.
Suspends(e) == e \in subs

\* A task record past the running test of _run_coro, holding a slot of
\* Semaphore s (NoSem: none), with rx the value of self.return_exceptions:
\* in the task.start trigger, or already in safe_run.
Started(rec, s, rx) ==
  IF Suspends("task.start")
  THEN [rec EXCEPT !.pc = "starting", !.sem = s]
  ELSE [rec EXCEPT !.pc = "working", !.sem = s, !.rex = rx]

\* A task record whose coroutine has ended in position pc with result out:
\* the frame of its run refers to it while that run is active.
Ended(rec, pc, out) ==
  IF runs[rec.run].pc = "active"
  THEN [rec EXCEPT !.pc = pc, !.out = out, !.sem = NoSem]
  ELSE Settled([rec EXCEPT !.pc = pc, !.out = out])

\* The end of a task that keeps its slot.
Release_leak(s) == sem

Release(s) == IF s = NoSem THEN sem ELSE [sem EXCEPT ![s] = @ + 1]

\* ---------------------------------------------------------------- run: tail
\* run() past its strategy: running = False, the finish trigger (created,
\* never awaited), reset(), return done, pending.  reset() reads the flag
\* just cleared, so its guard passes.
run_return(r, tk, q, d, p) ==
  /\ running' = FALSE
  /\ reset_state(Forgotten(tk, r), q)
  /\ runs' = [runs EXCEPT ![r] = [NoRun EXCEPT !.pc = "returned"]]
  /\ reply' = Return(d, p)

\* The exception of task t, or its result that is an exception, leaves
\* _run_sequentially and run(): nothing of run()'s tail is executed.  The
\* traceback keeps the done list and the pool holds what was not dequeued.
run_raise(r, t, tk) ==
  /\ tasks' = Forgotten(tk, r)
  /\ runs' = [runs EXCEPT ![r] = [NoRun EXCEPT !.pc = "raised", !.err = t,
                                                !.done = runs[r].done,
                                                !.abandoned = Range(pool)]]
  /\ reply' = Raise(TaskError)
  /\ UNCHANGED <<running, pool, subs, throttler, sem>>

\* ---------------------------------------------------------------- _run_coro
\* _run_coro(task) from its entry to its first suspension, for a task that
\* holds a slot of Semaphore s (NoSem: no slot).  Not running: returns None
\* at once, and the with-block of _schedule_coro gives the slot back.
\* Running: the task.start trigger.
\* _run_coro without its test of self.running.
run_coro_unguarded(t, s) ==
  /\ tasks' = [tasks EXCEPT ![t] = Started(@, s, return_exceptions)]
  /\ sem' = IF s = NoSem THEN sem ELSE [sem EXCEPT ![s] = @ - 1]
  /\ notified' = TriggerStart(notified, t)

run_coro(t, s) ==
  IF running
  THEN /\ tasks' = [tasks EXCEPT ![t] = Started(@, s, return_exceptions)]
       /\ sem' = IF s = NoSem THEN sem ELSE [sem EXCEPT ![s] = @ - 1]
       /\ notified' = TriggerStart(notified, t)
  ELSE /\ tasks' = [tasks EXCEPT ![t] = Ended(@, "skipped", "None")]
       /\ UNCHANGED <<sem, notified>>

\* ---------------------------------------------------------------- _schedule_coro
\* with (yield from self.throttler): the Semaphore read when the coroutine
\* first runs; a free slot is taken at once, otherwise the coroutine waits.
schedule_coro(t) ==
  IF sem[throttler] > 0
  THEN run_coro(t, throttler)
  ELSE /\ tasks' = [tasks EXCEPT ![t].pc = "waiting", ![t].sem = throttler]
       /\ UNCHANGED <<sem, notified>>

\* ---------------------------------------------------------------- _run_sequentially
\* The task the loop takes next: deque.popleft().
\* The task deque.pop() would take: the right end.
pop_right(q) == q[Len(q)]

popleft(q) == Head(q)

\* deque[0] in place of deque.popleft(): the task is left in the pool.
Without_peek(q, t) == q

Without(q, t) == SelectSeq(q, LAMBDA x : x # t)

\* The while loop of _run_sequentially from its test to its next suspension
\* or its return, with rg and rx the values of self.running and
\* self.return_exceptions, tk, nf and d the task table, the triggers made
\* and the done list so far.  A task dequeued while the executor is not running is a no-op whose
\* future gets None, so the loop then drains the whole pool and returns.
run_sequentially(r, rg, rx, tk, nf, d) ==
  IF Len(pool) > 0 /\ rg
  THEN LET t == popleft(pool) IN
       /\ pool' = Without(pool, t)
       /\ tasks' = [tk EXCEPT ![t] = Started([@ EXCEPT !.run = r], NoSem, rx)]
       /\ runs' = [runs EXCEPT ![r].pc = "active", ![r].done = d]
       /\ notified' = TriggerStart(nf, t)
       /\ running' = rg
       /\ reply' = Quiet
       /\ UNCHANGED <<subs, throttler, sem>>
  ELSE LET skip == Range(pool)
           tk2 == [t \in TaskIds |->
                     IF t \in skip
                     THEN [tk[t] EXCEPT !.pc = "skipped", !.run = r,
                                        !.out = "None"]
                     ELSE tk[t]]
       IN /\ run_return(r, tk2, <<>>, d \cup skip, {})
          /\ notified' = nf

\* ---------------------------------------------------------------- _run_concurrently
\* The whole pool is dequeued and every task wrapped in a coroutine object;
\* asyncio.wait turns each into a scheduled asyncio task.
run_concurrently(r, timeout, return_when) ==
  /\ pool' = <<>>
  /\ tasks' = [t \in TaskIds |->
                 IF t \in Range(pool)
                 THEN [tasks[t] EXCEPT !.pc = "scheduled", !.run = r]
                 ELSE tasks[t]]
  /\ runs' = [runs EXCEPT ![r].pc = "active", ![r].timeout = timeout,
                          ![r].return_when = return_when]
  /\ running' = TRUE
  /\ reply' = Quiet
  /\ UNCHANGED <<subs, throttler, sem, notified>>

\* ---------------------------------------------------------------- run
\* The two guards of run().
\* run()'s guards without the test of self.running.
run_guard_pool_only ==
  IF Len(pool) = 0 THEN EmptySchedule ELSE ""

\* run()'s guards without the test of the pool.
run_guard_running_only ==
  IF running THEN AlreadyRunning ELSE ""

run_guard ==
  IF running THEN AlreadyRunning
  ELSE IF Len(pool) = 0 THEN EmptySchedule
  ELSE ""

\* run() as it would be with "if return_exceptions:" for the test
\* "if return_exceptions is not None:".
run_truthy(rexArg, timeout, return_when) ==
  /\ IF run_guard # ""
     THEN /\ reply' = Raise(run_guard)
          /\ UNCHANGED <<running, return_exceptions, pool, subs, throttler,
                         sem, tasks, runs, nruns, notified>>
     ELSE /\ nruns < MaxRuns
          /\ nruns' = nruns + 1
          /\ return_exceptions' = IF rexArg = "True" THEN TRUE
                                  ELSE return_exceptions
          /\ IF limit = 1
             THEN run_sequentially(nruns + 1, TRUE, return_exceptions',
                                   tasks, notified, {})
             ELSE run_concurrently(nruns + 1, timeout, return_when)
  /\ UNCHANGED <<limit, ntasks, cancelled, interfered>>

run(rexArg, timeout, return_when) ==
  /\ IF run_guard # ""
     THEN /\ reply' = Raise(run_guard)
          /\ UNCHANGED <<running, return_exceptions, pool, subs, throttler,
                         sem, tasks, runs, nruns, notified>>
     ELSE /\ nruns < MaxRuns
          /\ nruns' = nruns + 1
          /\ return_exceptions' = IF rexArg = "None" THEN return_exceptions
                                  ELSE rexArg = "True"
          /\ IF limit = 1
             THEN run_sequentially(nruns + 1, TRUE, return_exceptions',
                                   tasks, notified, {})
             ELSE run_concurrently(nruns + 1, timeout, return_when)
  /\ UNCHANGED <<limit, ntasks, cancelled, interfered>>

\* ---------------------------------------------------------------- task steps
\* The first step as it would be were every task wrapped in
\* _schedule_coro, whatever the limit.
FirstStep_throttled(t) ==
  /\ tasks[t].pc = "scheduled"
  /\ schedule_coro(t)
  /\ reply' = Quiet
  /\ cancelled' = Live(cancelled, tasks')
  /\ UNCHANGED <<limit, running, return_exceptions, pool, subs, throttler,
                 ntasks, runs, nruns, interfered>>

\* First step of a scheduled asyncio task of _run_concurrently.
FirstStep(t) ==
  /\ tasks[t].pc = "scheduled"
  /\ IF limit <= 0 THEN run_coro(t, NoSem) ELSE schedule_coro(t)
  /\ reply' = Quiet
  /\ cancelled' = Live(cancelled, tasks')
  /\ UNCHANGED <<limit, running, return_exceptions, pool, subs, throttler,
                 ntasks, runs, nruns, interfered>>

\* Semaphore.acquire() of a waiting task succeeds.
Acquire(t) ==
  /\ tasks[t].pc = "waiting"
  /\ sem[tasks[t].sem] > 0
  /\ run_coro(t, tasks[t].sem)
  /\ reply' = Quiet
  /\ cancelled' = Live(cancelled, tasks')
  /\ UNCHANGED <<limit, running, return_exceptions, pool, subs, throttler,
                 ntasks, runs, nruns, interfered>>

\* The task.start trigger is over: safe_run(coro, self.return_exceptions)
\* is called and the unit of work begins.
BeginWork(t) ==
  /\ tasks[t].pc = "starting"
  /\ tasks' = [tasks EXCEPT ![t].pc = "working",
                            ![t].rex = return_exceptions]
  /\ reply' = Quiet
  /\ UNCHANGED <<limit, running, return_exceptions, pool, subs, throttler,
                 sem, ntasks, runs, nruns, notified, cancelled, interfered>>

\* _run_coro makes the task.finish trigger of task t and returns its
\* result out: to the with-block of _schedule_coro (slot released,
\* asyncio task done), or to _run_sequentially, which raises a result that
\* is an exception unless self.return_exceptions, and otherwise resolves
\* the future and goes round its loop.
run_coro_return(t, out) ==
  LET r == tasks[t].run
      tk == [tasks EXCEPT ![t] = Ended(@, "done", out)]
      nf == TriggerFinish(notified, t, out)
  IN IF limit # 1
     THEN /\ tasks' = tk
          /\ notified' = nf
          /\ sem' = Release(tasks[t].sem)
          /\ reply' = Quiet
          /\ UNCHANGED <<running, pool, subs, throttler, runs>>
     ELSE IF out = "error" /\ ~return_exceptions
     THEN run_raise(r, t, tk) /\ notified' = nf
     ELSE run_sequentially(r, running, return_exceptions, tk, nf,
                           runs[r].done \cup {t})

\* The unit of work ends, with a value (ok) or an exception.  A result goes
\* through the task.finish trigger and out of _run_coro.  An exception raised again leaves
\* _run_coro and the with-block (slot released) and ends the asyncio task,
\* or, under limit == 1, leaves _run_sequentially and run().
EndWork(t, ok) ==
  /\ tasks[t].pc = "working"
  /\ LET res == safe_run(ok, tasks[t].rex)
         tk == [tasks EXCEPT ![t] = Ended(@, "raised", "error")]
     IN IF res = "raise"
        THEN /\ IF limit = 1
                THEN run_raise(tasks[t].run, t, tk)
                ELSE /\ tasks' = tk
                     /\ sem' = Release(tasks[t].sem)
                     /\ reply' = Quiet
                     /\ UNCHANGED <<running, pool, subs, throttler, runs>>
             /\ UNCHANGED notified
        ELSE run_coro_return(t, res)
  /\ cancelled' = Live(cancelled, tasks')
  /\ UNCHANGED <<limit, return_exceptions, ntasks, nruns, interfered>>

\* asyncio.wait as it would return were the first exception always
\* waited for.
WaitOver_first_exception(r) ==
  LET d == { t \in Coros(tasks, r) : tasks[t].pc \in Resolved } IN
  \/ runs[r].timeout # "None"
  \/ d = Coros(tasks, r)
  \/ \E t \in d : tasks[t].pc = "raised"

\* asyncio.wait(coros, timeout, return_when) returns to run(): every
\* asyncio task has had its first step by then; done are the resolved
\* ones, pending the others, which are left running.
WaitOver(r) ==
  LET d == { t \in Coros(tasks, r) : tasks[t].pc \in Resolved } IN
  \/ runs[r].timeout # "None"
  \/ d = Coros(tasks, r)
  \/ runs[r].return_when = "FIRST_COMPLETED" /\ d # {}
  \/ runs[r].return_when = "FIRST_EXCEPTION"
       /\ \E t \in d : tasks[t].pc = "raised"

WaitReturn(r) ==
  /\ runs[r].pc = "active"
  /\ limit # 1
  /\ \A t \in Coros(tasks, r) : tasks[t].pc # "scheduled"
  /\ WaitOver(r)
  /\ LET d == { t \in Coros(tasks, r) : tasks[t].pc \in Resolved } IN
     run_return(r, tasks, pool, d, Coros(tasks, r) \ d)
  /\ UNCHANGED <<limit, return_exceptions, ntasks, nruns, notified, cancelled,
                 interfered>>

\* ---------------------------------------------------------------- specification
Next ==
  \/ add
  \/ cancel
  \/ reset
  \/ \E e \in EventNames : on(e)
  \/ \E e \in EventNames : off(e)
  \/ \E a \in RexArgs, w \in WaitArgs : run(a, w[1], w[2])
  \/ \E t \in TaskIds : FirstStep(t)
  \/ \E t \in TaskIds : Acquire(t)
  \/ \E t \in TaskIds : BeginWork(t)
  \/ \E t \in TaskIds, ok \in BOOLEAN : EndWork(t, ok)
  \/ \E r \in RunIds : WaitReturn(r)

Spec == Init /\ [][Next]_vars

\* ---------------------------------------------------------------- claims
\* The executor's own state: everything but what a caller is handed and
\* the history variables.
state == <<limit, running, return_exceptions, pool, subs, throttler, sem,
           tasks, ntasks, runs, nruns, notified>>

\* Tasks inside their unit of work.
Executing == { t \in TaskIds : tasks[t].pc = "working" }
\* run() invocations past their guards that have neither returned nor raised.
ActiveRuns == { r \in RunIds : runs[r].pc = "active" }
\* The step makes the task.start trigger of task t.
StartsNow(t) == ~notified[t].start /\ notified'[t].start

\* C1: with limit > 0, the number of tasks that are inside their unit of
\* work never exceeds limit, whatever add, run, cancel and reset calls
\* are interleaved with the tasks.
C1_ExecutingWithinLimit ==
  limit > 0 => Cardinality(Executing) <= limit

\* C2: with limit == 1, and no cancel() during a run, a task.start trigger
\* is made only when no other task is in flight, every task of the cycle
\* started earlier was submitted earlier (and, both submitted before the
\* run, has the smaller index) and has had its task.finish trigger by the
\* end of the step.
C2_SequentialOrder ==
  [][ (limit = 1 /\ ~interfered') =>
        \A t \in TaskIds : StartsNow(t) =>
          /\ \A u \in TaskIds \ {t} : tasks'[u].pc \notin InFlight
          /\ \A u \in TaskIds \ {t} :
               (notified[u].start /\ tasks[u].run = tasks'[t].run) =>
                 /\ u < t
                 /\ notified'[u].finish # "none"
                 /\ (~tasks[u].late /\ ~tasks'[t].late)
                      => tasks[u].index < tasks'[t].index ]_vars

\* C2 witness: the second task of a sequential cycle is in flight after the
\* first one is done.
C2_Witness ==
  /\ limit = 1
  /\ ~interfered
  /\ \E t, u \in TaskIds :
       /\ t < u
       /\ tasks[t].run = tasks[u].run
       /\ tasks[t].pc = "done"
       /\ tasks[u].pc \in InFlight

\* C3: whenever a run() has just ended, by returning or by propagating a
\* task failure, the executor is Idle, the queue is empty and the throttle
\* is at full capacity (so that add then run is accepted).
C3_ReusableAfterRun ==
  (reply.ret \/ reply.error = TaskError) =>
     /\ ~running
     /\ pool = <<>>
     /\ sem[throttler] = limit

\* C4: at most one execution cycle is active in every reachable state.
C4_OneActiveCycle ==
  Cardinality(ActiveRuns) <= 1

\* C5: while the executor is Running no run() passes the guards, no call
\* fails with the empty-schedule error, and the call that fails with the
\* already-running error is made while Running and changes nothing of the
\* executor: flag, queue, throttle, failure policy, tasks and cycles.
C5_RunWhileRunning ==
  [][ /\ running => (nruns' = nruns /\ reply'.error # EmptySchedule)
      /\ reply'.error = AlreadyRunning => (running /\ UNCHANGED state) ]_vars

\* C5 witness: run() has just been rejected while a task of the running
\* cycle is inside its unit of work.
C5_Witness ==
  /\ reply.error = AlreadyRunning
  /\ running
  /\ Executing # {}

\* C6: while the executor is Idle with an empty queue no run() passes the
\* guards, no call fails with the already-running error, and the call that
\* fails with the empty-schedule error changes nothing of the executor: it
\* stays Idle and no task starts.
C6_RunOnEmptyQueue ==
  [][ /\ (~running /\ pool = <<>>)
         => (nruns' = nruns /\ reply'.error # AlreadyRunning)
      /\ reply'.error = EmptySchedule
         => (~running /\ pool = <<>> /\ ~reply'.ret /\ UNCHANGED state) ]_vars

\* C6 witness: run() has just been rejected on an empty queue.
C6_Witness ==
  /\ reply.error = EmptySchedule
  /\ ~running
  /\ pool = <<>>

\* C7: with limit == 1, and no cancel() during a run, a unit of work that
\* fails under return_exceptions == False ends its run() with that failure
\* and without a task.finish trigger; every task the cycle ran before it
\* is done and has had its task.finish trigger with its outcome; the tasks
\* behind it stay in the queue, and no task left there by a run() that
\* raised starts afterwards.
C7_SequentialAbort ==
  [][ (limit = 1 /\ ~interfered') =>
        /\ \A t \in TaskIds :
             (tasks[t].pc = "working" /\ ~tasks[t].rex /\ EndWork(t, FALSE)) =>
               /\ reply'.error = TaskError
               /\ runs'[tasks[t].run].pc = "raised"
               /\ runs'[tasks[t].run].err = t
               /\ tasks'[t].pc = "raised"
               /\ notified'[t].finish = "none"
               /\ \A u \in Coros(tasks, tasks[t].run) \ {t} :
                    /\ u \in runs'[tasks[t].run].done
                    /\ tasks'[u].pc = "done"
                    /\ tasks'[u].out # "none"
                    /\ notified'[u].finish = tasks'[u].out
               /\ pool' = pool
               /\ runs'[tasks[t].run].abandoned = Range(pool)
               /\ \A u \in Range(pool) : ~notified'[u].start
        /\ \A r \in RunIds : \A u \in TaskIds :
             (runs[r].pc = "raised" /\ u \in runs[r].abandoned) =>
               /\ runs'[r] = runs[r]
               /\ ~notified'[u].start
               /\ tasks'[u].pc \in {"queued", "dropped"} ]_vars

\* C7 witness: a sequential run() has raised the failure of its second
\* task: the first is done, the third is left in the queue.
C7_Witness ==
  /\ limit = 1
  /\ ~interfered
  /\ reply.error = TaskError
  /\ \E r \in RunIds :
       /\ runs[r].pc = "raised"
       /\ runs[r].done # {}
       /\ runs[r].abandoned # {}
       /\ \A t \in runs[r].abandoned : tasks[t].pc = "queued"

\* C8: a unit of work that fails under return_exceptions == True ends as a
\* result: the task is done with the error as outcome, and the task.finish
\* trigger carries that error.  With the flag True and no cancel() during a
\* run, no run() raises a task failure, and a run() that waits for all its
\* tasks returns with every task it dequeued done, nothing pending and the
\* executor Idle.
C8_ReturnExceptions ==
  [][ /\ \A t \in TaskIds :
           (tasks[t].pc = "working" /\ tasks[t].rex /\ EndWork(t, FALSE)) =>
              /\ tasks'[t].pc = "done"
              /\ tasks'[t].out = "error"
              /\ notified'[t].finish = "error"
      /\ (return_exceptions /\ ~interfered') =>
           /\ reply'.error # TaskError
           /\ \A r \in RunIds :
                (runs[r].pc = "active" /\ runs'[r].pc = "returned"
                   /\ runs[r].timeout = "None"
                   /\ runs[r].return_when = "ALL_COMPLETED") =>
                   /\ reply'.ret
                   /\ ~running'
                   /\ reply'.pending = {}
                   /\ Coros(tasks, r) \subseteq reply'.done
                   /\ \A t \in reply'.done : tasks'[t].pc = "done" ]_vars

\* C8 witness: a concurrent run() has just returned, under
\* return_exceptions == True, several tasks of which one failed.
C8_Witness ==
  /\ limit # 1
  /\ reply.ret
  /\ return_exceptions
  /\ ~interfered
  /\ Cardinality(reply.done) >= 2
  /\ reply.pending = {}
  /\ \E t \in reply.done : tasks[t].out = "error"
  /\ \E t \in reply.done : tasks[t].out = "value"

\* C9: a task that was dequeued and not yet started when cancel() was
\* called during a run never starts, whatever calls follow.
C9_CancelledNeverStart ==
  \A t \in cancelled : tasks[t].pc \notin InFlight

\* C10: reset() while Running fails with the still-running error and leaves
\* queue, subscriptions and throttle as they are; reset() while Idle empties
\* the queue, removes every subscription and installs a throttle at full
\* capacity, leaving limit and the lifecycle state as they are.
C10_Reset ==
  [][ /\ reply'.error = StillRunning => (running /\ UNCHANGED state)
      /\ (running /\ reset) => reply'.error = StillRunning
      /\ (~running /\ reset) =>
           /\ reply'.error = ""
           /\ pool' = <<>>
           /\ subs' = {}
           /\ sem'[throttler'] = limit
           /\ limit' = limit
           /\ running' = running ]_vars

\* C10 witness: reset() has just been rejected while Running, with a task
\* in the queue and a subscription in place.
C10_Witness ==
  /\ reply.error = StillRunning
  /\ running
  /\ pool # <<>>
  /\ subs # {}

\* The step is the return of run r, which waited for all its tasks.
ReturnsAll(r) ==
  /\ runs[r].pc = "active"
  /\ runs'[r].pc = "returned"
  /\ runs[r].timeout = "None"
  /\ runs[r].return_when = "ALL_COMPLETED"

\* C11: a run() with the all-complete policy, no timeout, no cancel() and
\* no failing task returns with every task it dequeued in done, executed
\* (task.start and task.finish triggered, its value as outcome), nothing
\* pending, the queue empty and no task submitted before the run left
\* undequeued; a task is in the queue only as long as it is not dequeued,
\* so none is executed twice.
C11_AllComplete ==
  [][ /\ \A t \in Range(pool') : tasks'[t].pc = "queued"
      /\ \A r \in RunIds :
           (ReturnsAll(r) /\ ~interfered'
              /\ \A t \in Coros(tasks, r) \cup reply'.done :
                   tasks'[t].out # "error") =>
             /\ reply'.ret
             /\ reply'.pending = {}
             /\ reply'.done \cap reply'.pending = {}
             /\ Coros(tasks, r) \subseteq reply'.done
             /\ \A t \in reply'.done :
                  /\ tasks'[t].pc = "done"
                  /\ tasks'[t].out = "value"
                  /\ notified'[t].start
                  /\ notified'[t].finish = "value"
             /\ pool' = <<>>
             /\ \A t \in TaskIds : tasks[t].pc = "queued" => tasks[t].late ]_vars

\* C11 witness: a throttled run() has just returned every submitted task
\* done with its value.
C11_Witness ==
  /\ limit >= 2
  /\ ~interfered
  /\ reply.ret
  /\ reply.pending = {}
  /\ reply.done = TaskIds
  /\ \A t \in TaskIds : tasks[t].pc = "done" /\ tasks[t].out = "value"

\* C12: the configured limit is never negative, and with limit == 0 no
\* task waits for or holds a slot of the throttle: a scheduled task that
\* gets its first step while the executor is running starts, however many
\* tasks are in flight.
C12_Unbounded ==
  [][ /\ limit >= 0
      /\ limit = 0 =>
           \A t \in TaskIds :
             /\ tasks'[t].pc # "waiting"
             /\ tasks'[t].sem = NoSem
             /\ (tasks[t].pc = "scheduled" /\ tasks'[t].pc # "scheduled"
                   /\ running) =>
                  (tasks'[t].pc \in InFlight /\ notified'[t].start) ]_vars

\* C12 witness: with limit == 0 every submitted task has started and none
\* has finished.
C12_Witness ==
  /\ limit = 0
  /\ ntasks = MaxTasks
  /\ \A t \in TaskIds :
       /\ tasks[t].pc = "working"
       /\ notified[t].start
       /\ notified[t].finish = "none"

\* Tasks whose task.start trigger has been made, and those whose
\* task.finish trigger has been made.
StartNotified == { t \in TaskIds : notified[t].start }
FinishNotified == { t \in TaskIds : notified[t].finish # "none" }

\* C13: with limit >= 2, at every point of a run() (here: as long as one
\* run() only has been invoked) the number of task.start triggers made
\* minus the number of task.finish triggers made is at most limit, whether
\* the tasks succeed or fail and whatever return_exceptions is.
C13_StartedMinusFinished ==
  (limit >= 2 /\ nruns <= 1) =>
     Cardinality(StartNotified) - Cardinality(FinishNotified) <= limit

\* The tasks a run() that has returned left pending.
Pending == { t \in TaskIds : /\ tasks[t].run # 0
                             /\ runs[tasks[t].run].pc = "returned" }

\* C14: a task left pending by a concurrent run() that returned early,
\* with no cancel() and no other run() invoked, is not cancelled: in flight
\* it stays in flight until its unit of work ends, and waiting for a slot
\* of the throttle it leaves the wait only to start its unit of work.
C14_PendingStillExecute ==
  [][ (nruns = 1 /\ ~interfered') =>
        \A t \in Pending :
          /\ tasks[t].pc = "waiting" => tasks'[t].pc \in {"waiting"} \cup InFlight
          /\ tasks[t].pc = "starting" => tasks'[t].pc \in InFlight
          /\ tasks[t].pc = "working"
               => tasks'[t].pc \in {"working", "done", "raised"} ]_vars

\* C15: add() gives a task the length of the queue as index, and any two
\* tasks dequeued by one run() have indices that increase strictly with
\* the order of submission, also when one was submitted during the run.
C15_IndexOrder ==
  [][ /\ ntasks' = ntasks + 1 => tasks'[ntasks'].index = Len(pool)
      /\ \A t, u \in TaskIds :
           (t < u /\ tasks'[t].run # 0 /\ tasks'[t].run = tasks'[u].run
              /\ runs'[tasks'[t].run].pc = "active") =>
             tasks'[t].index < tasks'[u].index ]_vars

\* The tasks of table tk that hold a slot of Semaphore s.
Holders(tk, s) == { t \in TaskIds : tk[t].sem = s /\ tk[t].pc \in InFlight }

\* C16: with limit >= 2, for the throttle and for every Semaphore a task
\* still holds or awaits, free slots plus slots held is limit (so with no
\* holder left all limit slots are free); a task in flight holds a slot
\* and a resolved task none; the step that ends a unit of work, with a
\* value, a captured error or a raised one, frees the slot it held.
C16_SlotAccounting ==
  [][ limit >= 2 =>
        /\ \A s \in SemIds :
             (s = throttler' \/ Referenced(tasks', s)) =>
               sem'[s] + Cardinality(Holders(tasks', s)) = limit
        /\ \A t \in TaskIds :
             /\ tasks'[t].pc \in InFlight => tasks'[t].sem \in SemIds
             /\ tasks'[t].pc \in Resolved => tasks'[t].sem = NoSem
             /\ (tasks[t].pc = "working" /\ tasks'[t].pc \in Resolved) =>
                  sem'[tasks[t].sem] = sem[tasks[t].sem] + 1 ]_vars

\* C16 witness: every task of a throttled cycle of more tasks than slots
\* has resolved, one with a value and one with a raised error, and all
\* slots of the throttle they held are free.
C16_Witness ==
  /\ limit >= 2
  /\ \E r \in RunIds : runs[r].pc = "active" /\ Coros(tasks, r) = TaskIds
  /\ \A t \in TaskIds : tasks[t].pc \in {"done", "raised"}
  /\ \E t \in TaskIds : tasks[t].pc = "done" /\ tasks[t].out = "value"
  /\ \E t \in TaskIds : tasks[t].pc = "raised"
  /\ sem[throttler] = limit

\* The step takes task t into _run_coro.
Enters(t) ==
  /\ tasks[t].pc \in {"queued", "scheduled", "waiting"}
  /\ tasks'[t].pc \in InFlight \cup Resolved

\* C17: a task that enters _run_coro while the executor is not running
\* resolves at once with None: no task.start, no task.finish, no unit of
\* work; one that enters while it is running has its task.start trigger
\* made; no task is in its unit of work without that trigger.
C17_RunnerGuard ==
  [][ \A t \in TaskIds :
        /\ Enters(t) =>
             IF running'
             THEN /\ tasks'[t].pc \in InFlight
                  /\ notified'[t].start
                  /\ notified'[t].finish = "none"
             ELSE /\ tasks'[t].pc = "skipped"
                  /\ tasks'[t].out = "None"
                  /\ ~notified'[t].start
                  /\ notified'[t].finish = "none"
        /\ tasks'[t].pc = "working" => notified'[t].start ]_vars

\* C17 witness: a task of a cancelled cycle went through _run_coro as a
\* no-op while another task of that cycle is still in its unit of work.
C17_Witness ==
  /\ ~running
  /\ \E t, u \in TaskIds :
       /\ tasks[t].pc = "skipped"
       /\ tasks[t].out = "None"
       /\ ~notified[t].start
       /\ tasks[u].pc = "working"
       /\ tasks[u].run = tasks[t].run

\* C18: in the concurrent strategy no step hands a task failure to the
\* caller of run().  A unit of work that fails under return_exceptions ==
\* False ends its own task only: the other tasks and the run() are as they
\* were.  With no cancel() during the run, a run() that waits for all its
\* tasks returns with every dequeued task in done, executed (done, or
\* raised with the error as outcome), nothing pending, the executor idle
\* and the queue empty.
C18_ConcurrentFailure ==
  [][ limit # 1 =>
        /\ reply'.error # TaskError
        /\ \A t \in TaskIds :
             (tasks[t].pc = "working" /\ ~tasks[t].rex /\ EndWork(t, FALSE)) =>
               /\ tasks'[t].pc = "raised"
               /\ tasks'[t].out = "error"
               /\ \A u \in TaskIds \ {t} : tasks'[u] = tasks[u]
               /\ runs' = runs
               /\ running' = running
               /\ pool' = pool
        /\ \A r \in RunIds :
             (ReturnsAll(r) /\ ~interfered') =>
               /\ reply'.ret
               /\ reply'.pending = {}
               /\ Coros(tasks, r) \subseteq reply'.done
               /\ \A t \in reply'.done :
                    /\ tasks'[t].pc \in {"done", "raised"}
                    /\ notified'[t].start
                    /\ tasks'[t].pc = "raised" => tasks'[t].out = "error"
               /\ ~running'
               /\ pool' = <<>> ]_vars

\* C18 witness: under return_exceptions == False a concurrent run() has
\* just returned, nothing pending, a task that raised and one that
\* succeeded after it started.
C18_Witness ==
  /\ limit # 1
  /\ ~return_exceptions
  /\ ~interfered
  /\ reply.ret
  /\ reply.pending = {}
  /\ ~running
  /\ pool = <<>>
  /\ \E t, u \in reply.done :
       /\ tasks[t].pc = "raised"
       /\ tasks[u].pc = "done"
       /\ tasks[u].out = "value"

\* The tasks submitted while the executor was running that are still in
\* the queue.
LateQueued == { t \in TaskIds : tasks[t].late /\ tasks[t].pc = "queued" }

C20_StickyFlag ==
  [][ /\ return_exceptions' # return_exceptions => nruns' = nruns + 1
      /\ \A a \in RexArgs, w \in WaitArgs :
           (nruns' = nruns + 1 /\ run(a, w[1], w[2])) =>
             return_exceptions' = IF a = "None" THEN return_exceptions
                                  ELSE a = "True"
      /\ (reset \/ cancel \/ reply'.ret) =>
           return_exceptions' = return_exceptions
      /\ \A t \in TaskIds :
           (tasks[t].pc # "working" /\ tasks'[t].pc = "working") =>
             tasks'[t].rex = return_exceptions' ]_vars

\* C20 witness: after a first run() has returned, with return_exceptions
\* True, a unit of work of the second run() has begun with that value.
C20_Witness ==
  /\ return_exceptions
  /\ nruns = 2
  /\ runs[1].pc = "returned"
  /\ \E t \in TaskIds :
       /\ tasks[t].run = 2
       /\ tasks[t].pc = "working"
       /\ tasks[t].rex

====
